---- MODULE Spec2Model ----
(***************************************************************************)
(* Model of the glide file-sharing server core: the shared user registry,  *)
(* the per-connection command handler (Command::handle and the cmd_*       *)
(* implementations of commands.rs), the frame codec of protocol.rs and     *)
(* receive_file of transfers.rs.                                           *)
(***************************************************************************)
EXTENDS Integers, Sequences, FiniteSets, TLC

(***************************************************************************)
(* Bounds of the model.                                                    *)
(***************************************************************************)
\* offers pending in all queues together
MaxOffers == 2
\* logins, commands, disconnects and refusals of the filesystem of all
\* sessions together
MaxSteps == 5
\* largest file size an uploader announces in its metadata
MaxFileSize == 1
\* most bytes one read of the upload stream returns: a read may return more
\* than the file still lacks (at most CHUNK_SIZE bytes in the program)
MaxRead == MaxFileSize + 1

Users == {"alice", "bob", "carol"}

\* Paths a Glide may name, as sequences of components.
Paths == {<<"f">>, <<"docs", "g">>, <<"docs", "..">>}

\* File names an uploader may announce in its metadata.
FileNames == {"f", "g"}

None == "None"

(***************************************************************************)
(* Helpers on queues (Vec<Request>).                                       *)
(***************************************************************************)

\* Path::file_name(): the final component, None when the path ends in "..".
file_name(path) ==
    IF Len(path) = 0 \/ path[Len(path)] = ".." THEN None ELSE path[Len(path)]

\* Vec::push
push(vec, x) == Append(vec, x)

\* Vec::remove(pos)
remove(vec, pos) == [i \in 1..(Len(vec) - 1) |-> IF i < pos THEN vec[i] ELSE vec[i + 1]]

\* iter().position(|req| req.from_username == from): 0 stands for None
position(vec, from) ==
    IF \E i \in 1..Len(vec) : vec[i].from_username = from
    THEN CHOOSE i \in 1..Len(vec) :
            /\ vec[i].from_username = from
            /\ \A j \in 1..(i - 1) : vec[j].from_username # from
    ELSE 0

\* iter().any(|req| req.from_username == from)
any(vec, from) == \E i \in 1..Len(vec) : vec[i].from_username = from

\* every order in which a HashMap may iterate over the key set S
Orders(S) ==
    {l \in [1..Cardinality(S) -> S] : \A i, j \in 1..Cardinality(S) : l[i] = l[j] => i = j}

\* HashMap::remove(key)
without(clients_, user) == [k \in (DOMAIN clients_) \ {user} |-> clients_[k]]

\* format!("{}/{}/{}", sender, recipient, filename)
staged(sender, recipient, filename) == <<sender, recipient, filename>>

(***************************************************************************)
(* Server responses (ServerResponse of commands.rs).                       *)
(***************************************************************************)
UnknownCommand == [type |-> "UnknownCommand"]
GlideRequestSent == [type |-> "GlideRequestSent"]
OkSuccess == [type |-> "OkSuccess"]
OkFailed == [type |-> "OkFailed"]
NoSuccess == [type |-> "NoSuccess"]
ConnectedUsers(user_list) == [type |-> "ConnectedUsers", users |-> user_list]
IncomingRequests(list) == [type |-> "IncomingRequests", requests |-> list]
UsernameInvalid == [type |-> "UsernameInvalid"]
NoResponse == [type |-> None]

\* struct Request of the command handler
Request(from_username, filename) == [from_username |-> from_username, filename |-> filename]

\* struct UserData (the socket string is diagnostic only and left out)
UserData(requests) == [incoming_requests |-> requests]

(***************************************************************************)
(* Commands (enum Command).                                                *)
(***************************************************************************)
List == [type |-> "List"]
Requests == [type |-> "Requests"]
Glide(path, to) == [type |-> "Glide", path |-> path, to |-> to]
Ok(from) == [type |-> "Ok", from |-> from]
No(from) == [type |-> "No", from |-> from]
InvalidCommand == [type |-> "InvalidCommand"]
NoCommand == [type |-> None]

\* what one execution of a command yields: the registry and the disk after it
\* and the response, or a panic of the session's task; `awaits` is the path
\* of the file whose removal the command awaits with the registry locked
Outcome(clients_, files_, response_) ==
    [clients |-> clients_, files |-> files_, response |-> response_, panic |-> FALSE,
     awaits |-> None]
Panic(clients_, files_) ==
    [clients |-> clients_, files |-> files_, response |-> NoResponse, panic |-> TRUE,
     awaits |-> None]
Suspended(clients_, files_, response_, file_path) ==
    [clients |-> clients_, files |-> files_, response |-> response_, panic |-> FALSE,
     awaits |-> file_path]

(***************************************************************************)
(* Command implementations, each run under the registry lock.              *)
(***************************************************************************)

\* cmd_list without the filter on the caller
cmd_list_all(clients_, username) ==
    {ConnectedUsers(l) : l \in Orders(DOMAIN clients_)}

\* the responses cmd_list may give: the keys other than username, in the
\* order the HashMap happens to iterate
cmd_list(clients_, username) ==
    {ConnectedUsers(l) : l \in Orders({x \in DOMAIN clients_ : x # username})}

\* cmd_reqs that answers from a copy of the queue taken before the latest push
cmd_reqs_stale(clients_, username) ==
    IF username \in DOMAIN clients_
    THEN LET requests == clients_[username].incoming_requests
         IN IncomingRequests(SubSeq(requests, 1, Len(requests) - 1))
    ELSE NoResponse

cmd_reqs(clients_, username) ==
    IF username \in DOMAIN clients_
    THEN IncomingRequests(clients_[username].incoming_requests)
    ELSE NoResponse

\* cmd_glide without the check for a glide to oneself
cmd_glide_self(clients_, files_, username, path, to) ==
    IF to \notin DOMAIN clients_
    THEN Outcome(clients_, files_, UnknownCommand)
    ELSE IF file_name(path) = None
    THEN Panic(clients_, files_)
    ELSE Outcome(
            [clients_ EXCEPT ![to].incoming_requests =
                push(@, Request(username, file_name(path)))],
            files_, GlideRequestSent)

\* cmd_glide that does not queue an offer the queue already holds
cmd_glide_dedup(clients_, files_, username, path, to) ==
    IF to \notin DOMAIN clients_ \/ username = to
    THEN Outcome(clients_, files_, UnknownCommand)
    ELSE IF file_name(path) = None
    THEN Panic(clients_, files_)
    ELSE IF \E i \in 1..Len(clients_[to].incoming_requests) :
                clients_[to].incoming_requests[i] = Request(username, file_name(path))
    THEN Outcome(clients_, files_, GlideRequestSent)
    ELSE Outcome(
            [clients_ EXCEPT ![to].incoming_requests =
                push(@, Request(username, file_name(path)))],
            files_, GlideRequestSent)

\* cmd_glide that writes back a queue it read before another push (a lost
\* update: the queue is left with the new request alone)
cmd_glide_overwrite(clients_, files_, username, path, to) ==
    IF to \notin DOMAIN clients_ \/ username = to
    THEN Outcome(clients_, files_, UnknownCommand)
    ELSE IF file_name(path) = None
    THEN Panic(clients_, files_)
    ELSE Outcome(
            [clients_ EXCEPT ![to].incoming_requests =
                <<Request(username, file_name(path))>>],
            files_, GlideRequestSent)

\* cmd_glide that drops the oldest offer of a queue that holds one already
cmd_glide_evict(clients_, files_, username, path, to) ==
    IF to \notin DOMAIN clients_ \/ username = to
    THEN Outcome(clients_, files_, UnknownCommand)
    ELSE IF file_name(path) = None
    THEN Panic(clients_, files_)
    ELSE Outcome(
            [clients_ EXCEPT ![to].incoming_requests =
                push(IF @ = <<>> THEN @ ELSE Tail(@), Request(username, file_name(path)))],
            files_, GlideRequestSent)

\* cmd_glide without the contains_key check: get_mut(to).unwrap() panics
\* when the registry does not hold `to`
cmd_glide_unchecked(clients_, files_, username, path, to) ==
    IF username = to
    THEN Outcome(clients_, files_, UnknownCommand)
    ELSE IF to \notin DOMAIN clients_ \/ file_name(path) = None
    THEN Panic(clients_, files_)
    ELSE Outcome(
            [clients_ EXCEPT ![to].incoming_requests =
                push(@, Request(username, file_name(path)))],
            files_, GlideRequestSent)

cmd_glide(clients_, files_, username, path, to) ==
    IF to \notin DOMAIN clients_ \/ username = to
    THEN Outcome(clients_, files_, UnknownCommand)
    ELSE IF file_name(path) = None
    THEN Panic(clients_, files_)
    ELSE Outcome(
            [clients_ EXCEPT ![to].incoming_requests =
                push(@, Request(username, file_name(path)))],
            files_, GlideRequestSent)

\* cmd_ok that does not look at the queue
cmd_ok_always(clients_, username, from) == OkSuccess

\* cmd_ok that accepts whenever the queue holds any offer
cmd_ok_nonempty(clients_, username, from) ==
    IF username \in DOMAIN clients_ /\ Len(clients_[username].incoming_requests) > 0
    THEN OkSuccess
    ELSE OkFailed

cmd_ok(clients_, username, from) ==
    IF username \in DOMAIN clients_ /\ any(clients_[username].incoming_requests, from)
    THEN OkSuccess
    ELSE OkFailed

\* cmd_no that drops every request of `from` (retain instead of remove)
cmd_no_all(clients_, files_, username, from) ==
    IF username \in DOMAIN clients_
    THEN Outcome(
            [clients_ EXCEPT ![username].incoming_requests =
                SelectSeq(@, LAMBDA req : req.from_username # from)],
            files_, NoSuccess)
    ELSE Outcome(clients_, files_, NoSuccess)

\* the request is removed from the queue, and the function then awaits
\* remove_file of its staged file before it drops the guard of the mutex and
\* returns NoSuccess
cmd_no(clients_, files_, username, from) ==
    IF username \in DOMAIN clients_
          /\ position(clients_[username].incoming_requests, from) # 0
    THEN LET requests == clients_[username].incoming_requests
             pos == position(requests, from)
         IN Suspended(
                [clients_ EXCEPT ![username].incoming_requests = remove(requests, pos)],
                files_, NoSuccess,
                staged(from, username, requests[pos].filename))
    ELSE Outcome(clients_, files_, NoSuccess)

\* tokio::fs::remove_file: the disk after it and whether it returned Ok; it
\* fails when the file does not exist or when the filesystem refuses
remove_file(files_, file_path, refused) ==
    IF file_path \in files_ /\ ~refused
    THEN [files |-> files_ \ {file_path}, ok |-> TRUE]
    ELSE [files |-> files_, ok |-> FALSE]

\* Command::execute: the outcomes a command may have
execute(clients_, files_, username, cmd) ==
    CASE cmd.type = "List" ->
            {Outcome(clients_, files_, r) : r \in cmd_list(clients_, username)}
      [] cmd.type = "Requests" ->
            IF cmd_reqs(clients_, username) = NoResponse
            THEN {Panic(clients_, files_)}
            ELSE {Outcome(clients_, files_, cmd_reqs(clients_, username))}
      [] cmd.type = "Glide" ->
            {cmd_glide(clients_, files_, username, cmd.path, cmd.to)}
      [] cmd.type = "Ok" ->
            {Outcome(clients_, files_, cmd_ok(clients_, username, cmd.from))}
      [] cmd.type = "No" ->
            {cmd_no(clients_, files_, username, cmd.from)}
      [] OTHER ->
            {Outcome(clients_, files_, UnknownCommand)}

\* the phase Command::handle enters after it wrote the response
phase(response_) ==
    IF response_ = GlideRequestSent THEN "AwaitingUpload"
    ELSE IF response_ = OkSuccess THEN "AwaitingDownload"
    ELSE "Active"

(***************************************************************************)
(* The frame codec (protocol.rs): Transmission::to_bytes and               *)
(* Transmission::from_stream.  A String is a sequence of chars (code       *)
(* points), the wire a sequence of bytes.                                  *)
(***************************************************************************)

\* longest string of a message
MaxStrLen == 1
\* most entries of a list, most data bytes of a chunk
MaxList == 1

\* chars of the strings: an ASCII letter and U+00E9
Chars == {97, 233}
\* data bytes of a chunk
DataBytes == {0, 200}
\* file sizes of a Metadata (a u32; the sizes from 2^31 on are beyond the
\* integers TLC computes with)
Sizes == {0, 258, 2147483647}

SeqsUpTo(S, n) == UNION {[1..k -> S] : k \in 0..n}

Strings == SeqsUpTo(Chars, MaxStrLen)

RECURSIVE Concat(_)
\* the concatenation of a sequence of sequences
Concat(ss) ==
    IF ss = <<>> THEN <<>>
    ELSE IF Len(ss) = 1 THEN ss[1]
    ELSE LET half == Len(ss) \div 2
         IN Concat(SubSeq(ss, 1, half)) \o Concat(SubSeq(ss, half + 1, Len(ss)))

\* the bytes of one char in UTF-8 (chars below U+0800)
utf8_char(c) == IF c < 128 THEN <<c>> ELSE <<192 + (c \div 64), 128 + (c % 64)>>

\* String::as_bytes / Vec::from(String)
utf8(str) == Concat([i \in 1..Len(str) |-> utf8_char(str[i])])

\* u16::to_be_bytes of `len() as u16`
be16(n) == <<(n % 65536) \div 256, n % 256>>

\* u32::to_be_bytes
be32(n) == <<(n \div 16777216) % 256, (n \div 65536) % 256, (n \div 256) % 256, n % 256>>

\* the second byte continues a sequence of three or four bytes that the
\* first byte starts
continues(b1, b2) ==
    \/ b1 = 224 /\ b2 >= 160 /\ b2 <= 191
    \/ b1 >= 225 /\ b1 <= 239 /\ b1 # 237 /\ b2 >= 128 /\ b2 <= 191
    \/ b1 = 237 /\ b2 >= 128 /\ b2 <= 159
    \/ b1 = 240 /\ b2 >= 144 /\ b2 <= 191
    \/ b1 >= 241 /\ b1 <= 243 /\ b2 >= 128 /\ b2 <= 191
    \/ b1 = 244 /\ b2 >= 128 /\ b2 <= 143

\* String::from_utf8_lossy of two bytes, as the chars of the resulting
\* string: U+FFFD for every maximal invalid part
from_utf8_lossy(b) ==
    IF b[1] < 128
    THEN <<b[1]>> \o (IF b[2] < 128 THEN <<b[2]>> ELSE <<65533>>)
    ELSE IF b[1] >= 194 /\ b[1] <= 223 /\ b[2] >= 128 /\ b[2] <= 191
    THEN <<(b[1] - 192) * 64 + (b[2] - 128)>>
    ELSE IF continues(b[1], b[2])
    THEN <<65533>>
    ELSE <<65533>> \o (IF b[2] < 128 THEN <<b[2]>> ELSE <<65533>>)

\* the bytes of a char of a string from_utf8_lossy gave
utf8_any(c) ==
    IF c = 65533 THEN <<239, 191, 189>> ELSE utf8_char(c)

\* [String].join("\0")
join(strs) ==
    Concat([i \in 1..Len(strs) |->
               IF i = 1 THEN utf8(strs[i]) ELSE <<0>> \o utf8(strs[i])])

\* the messages (enum Transmission)
Simple(type) == [type |-> type]
Username(user) == [type |-> "Username", user |-> user]
Metadata(name, size) == [type |-> "Metadata", filename |-> name, size |-> size]
Chunk(name, data) == [type |-> "Chunk", filename |-> name, data |-> data]
Users_(users) == [type |-> "ConnectedUsers", users |-> users]
Requests_(requests) == [type |-> "IncomingRequests", requests |-> requests]
Command(cmd) == [type |-> "Command", command |-> cmd]
\* struct Request of the codec
WireRequest(sender, name) == [sender |-> sender, filename |-> name]

\* a list long enough for the low byte of its u16 count to be above 0x7F
ManyEntries == 128

SimpleTypes ==
    {"UsernameOk", "UsernameTaken", "UsernameInvalid", "GlideRequestSent",
     "OkSuccess", "OkFailed", "NoSuccess", "ClientDisconnected"}

Messages ==
    {Simple(t) : t \in SimpleTypes}
      \cup {Username(u) : u \in Strings}
      \cup {Metadata(f, n) : f \in Strings, n \in Sizes}
      \cup {Chunk(f, d) : f \in Strings, d \in SeqsUpTo(DataBytes, MaxList)}
      \cup {Users_(l) : l \in SeqsUpTo(Strings, MaxList)}
      \cup {Requests_(l) :
                l \in SeqsUpTo({WireRequest(a, b) : a \in Strings, b \in Strings}, MaxList)}
      \cup {Command(List), Command(Requests)}
      \cup {Command(Glide(p, t)) : p \in Strings, t \in Strings}
      \cup {Command(Ok(u)) : u \in Strings}
      \cup {Command(No(u)) : u \in Strings}
      \cup {Users_([i \in 1..ManyEntries |-> <<97>>]),
            Requests_([i \in 1..ManyEntries |-> WireRequest(<<97>>, <<97>>)])}

\* Transmission::to_bytes, the Command variant
command_to_bytes(cmd) ==
    CASE cmd.type = "List" -> <<9, 1>>
      [] cmd.type = "Requests" -> <<9, 2>>
      [] cmd.type = "Glide" -> <<9, 3>> \o utf8(cmd.path) \o <<0>> \o utf8(cmd.to) \o <<0>>
      [] cmd.type = "Ok" -> <<9, 4>> \o utf8(cmd.from) \o <<0>>
      [] cmd.type = "No" -> <<9, 4>> \o utf8(cmd.from) \o <<0>>

\* Transmission::to_bytes
to_bytes(m) ==
    CASE m.type = "Username" -> <<1>> \o utf8(m.user) \o <<0>>
      [] m.type = "UsernameOk" -> <<2>>
      [] m.type = "UsernameTaken" -> <<3>>
      [] m.type = "UsernameInvalid" -> <<4>>
      [] m.type = "Metadata" -> <<5>> \o utf8(m.filename) \o <<0>> \o be32(m.size)
      [] m.type = "Chunk" ->
            <<6>> \o utf8(m.filename) \o <<0>> \o be16(Len(m.data)) \o m.data
      [] m.type = "ConnectedUsers" ->
            <<7>> \o Concat([i \in 1..Len(from_utf8_lossy(be16(Len(m.users)))) |->
                               utf8_any(from_utf8_lossy(be16(Len(m.users)))[i])])
                  \o join(m.users) \o <<0>> \o <<0>>
      [] m.type = "IncomingRequests" ->
            <<8>> \o Concat([i \in 1..Len(from_utf8_lossy(be16(Len(m.requests)))) |->
                               utf8_any(from_utf8_lossy(be16(Len(m.requests)))[i])])
                  \o Concat([i \in 1..Len(m.requests) |->
                               (IF i = 1 THEN <<>> ELSE <<0>>)
                                 \o utf8(m.requests[i].sender) \o <<0>>
                                 \o utf8(m.requests[i].filename)])
                  \o <<0>>
      [] m.type = "Command" -> command_to_bytes(m.command)
      [] m.type = "OkFailed" -> <<10>>
      [] m.type = "NoSuccess" -> <<11>>
      [] m.type = "ClientDisconnected" -> <<12>>
      [] m.type = "GlideRequestSent" -> <<13>>
      [] m.type = "OkSuccess" -> <<14>>

\* what a read of the stream yields: a value and the place after it, an
\* error (the stream ended) or a panic
Read(value, next) == [kind |-> "ok", value |-> value, next |-> next]
ReadErr == [kind |-> "err"]
ReadPanic == [kind |-> "panic"]

\* the loop `read_u8 until '\0', push(ch as char)`, from place i
read_str(bytes, i) ==
    IF \E j \in i..Len(bytes) : bytes[j] = 0
    THEN LET z == CHOOSE j \in i..Len(bytes) :
                     bytes[j] = 0 /\ \A k \in i..(j - 1) : bytes[k] # 0
         IN Read([k \in 1..(z - i) |-> bytes[i + k - 1]], z + 1)
    ELSE ReadErr

\* read_exact of n bytes from place i
read_exact(bytes, i, n) ==
    IF i + n - 1 <= Len(bytes)
    THEN Read([k \in 1..n |-> bytes[i + k - 1]], i + n)
    ELSE ReadErr

\* n strings read one after the other from place i, each by the loop of
\* read_str: string k lies between the (k-1)-th and the k-th 0x0 byte from
\* place i on, and the stream ends too early when it holds fewer than n
read_strs(bytes, i, n) ==
    LET Z == {j \in i..Len(bytes) : bytes[j] = 0}
        z(k) == IF k = 0 THEN i - 1
                ELSE CHOOSE j \in Z : Cardinality({x \in Z : x <= j}) = k
    IN IF Cardinality(Z) < n THEN ReadErr
       ELSE Read([k \in 1..n |->
                     [c \in 1..(z(k) - z(k - 1) - 1) |-> bytes[z(k - 1) + c]]],
                 z(n) + 1)

from_be16(b) == b[1] * 256 + b[2]
from_be32(b) == b[1] * 16777216 + b[2] * 65536 + b[3] * 256 + b[4]

\* Transmission::from_stream, the command after the tag 0x9, from place i
command_from_stream(bytes, i) ==
    IF i > Len(bytes) THEN ReadErr
    ELSE CASE bytes[i] = 1 -> Read(Command(List), i + 1)
           [] bytes[i] = 2 -> Read(Command(Requests), i + 1)
           [] bytes[i] = 3 ->
                LET two == read_strs(bytes, i + 1, 2)
                IN IF two.kind # "ok" THEN ReadErr
                   ELSE Read(Command(Glide(two.value[1], two.value[2])), two.next)
           [] bytes[i] = 4 ->
                LET u == read_str(bytes, i + 1)
                IN IF u.kind # "ok" THEN ReadErr ELSE Read(Command(Ok(u.value)), u.next)
           [] bytes[i] = 5 ->
                LET u == read_str(bytes, i + 1)
                IN IF u.kind # "ok" THEN ReadErr ELSE Read(Command(No(u.value)), u.next)
           [] OTHER -> ReadPanic

\* Transmission::from_stream with the tag at place i
frame_from_stream(bytes, i) ==
    CASE bytes[i] = 1 ->
            LET u == read_str(bytes, i + 1)
            IN IF u.kind # "ok" THEN ReadErr ELSE Read(Username(u.value), u.next)
      [] bytes[i] = 2 -> Read(Simple("UsernameOk"), i + 1)
      [] bytes[i] = 3 -> Read(Simple("UsernameTaken"), i + 1)
      [] bytes[i] = 4 -> Read(Simple("UsernameInvalid"), i + 1)
      [] bytes[i] = 5 ->
            LET f == read_str(bytes, i + 1)
            IN IF f.kind # "ok" THEN ReadErr
               ELSE LET n == read_exact(bytes, f.next, 4)
                    IN IF n.kind # "ok" THEN ReadErr
                       ELSE Read(Metadata(f.value, from_be32(n.value)), n.next)
      [] bytes[i] = 6 ->
            LET f == read_str(bytes, i + 1)
            IN IF f.kind # "ok" THEN ReadErr
               ELSE LET n == read_exact(bytes, f.next, 2)
                    IN IF n.kind # "ok" THEN ReadErr
                       ELSE LET d == read_exact(bytes, n.next, from_be16(n.value))
                            IN IF d.kind # "ok" THEN ReadErr
                               ELSE Read(Chunk(f.value, d.value), d.next)
      [] bytes[i] = 7 ->
            LET n == read_exact(bytes, i + 1, 2)
            IN IF n.kind # "ok" THEN ReadErr
               ELSE LET l == read_strs(bytes, n.next, from_be16(n.value))
                    IN IF l.kind # "ok" THEN ReadErr
                       ELSE Read(Users_(l.value), l.next)
      [] bytes[i] = 8 ->
            LET n == read_exact(bytes, i + 1, 2)
            IN IF n.kind # "ok" THEN ReadErr
               ELSE LET l == read_strs(bytes, n.next, 2 * from_be16(n.value))
                    IN IF l.kind # "ok" THEN ReadErr
                       ELSE Read(Requests_([k \in 1..from_be16(n.value) |->
                                     WireRequest(l.value[2 * k - 1], l.value[2 * k])]),
                                 l.next)
      [] bytes[i] = 9 -> command_from_stream(bytes, i + 1)
      [] bytes[i] = 10 -> Read(Simple("OkFailed"), i + 1)
      [] bytes[i] = 11 -> Read(Simple("NoSuccess"), i + 1)
      [] bytes[i] = 12 -> Read(Simple("ClientDisconnected"), i + 1)
      [] bytes[i] = 13 -> Read(Simple("GlideRequestSent"), i + 1)
      [] bytes[i] = 14 -> Read(Simple("OkSuccess"), i + 1)
      [] OTHER -> ReadPanic

\* Transmission::from_stream from place i of the stream: the 0x0 tags are
\* skipped, then one frame is read
from_stream(bytes, i) ==
    IF \E j \in i..Len(bytes) : bytes[j] # 0
    THEN frame_from_stream(bytes,
            CHOOSE j \in i..Len(bytes) : bytes[j] # 0 /\ \A k \in i..(j - 1) : bytes[k] = 0)
    ELSE ReadErr

(***************************************************************************)
(* State.                                                                  *)
(***************************************************************************)
VARIABLES
    clients,     \* the registry: HashMap<String, UserData> behind the mutex
    files,       \* the staged files that exist on disk, as paths
    pc,          \* where each session stands
    command,     \* per session: the command Command::handle is working on
    response,    \* per session: the response Command::handle wrote for it
    upload,      \* per session: file_name, file_size, total_bytes_received
    filename,    \* per session: the filename the download phase looked up
    approved,    \* history: the session's queue held an offer from `from`
                 \* when its last Ok(from) executed
    unanswered,  \* history: per <<recipient, sender, filename>>, the glides
                 \* answered GlideRequestSent the recipient has not answered
    last,        \* history: what the step just taken did
    steps,       \* logins, commands, disconnects and refusals so far
    lock,        \* the session that holds the registry mutex, or None
    before,      \* history: the registry as it was when the holder of the
                 \* mutex locked it
    msg,         \* codec: the message handed to to_bytes
    wire,        \* codec: the bytes on the stream
    decoded,     \* codec: what from_stream returned
    cpc,         \* codec: "off", "idle", "encoded", "injected", "decoded" or
                 \* "decoded_raw"
    stream,      \* receive_file: the bytes the peer sends before it closes
    rpos,        \* receive_file: the next byte of the stream to read
    recv,        \* receive_file: its position, its locals and its result
    send,        \* send_file: its position, its locals and its result
    sent,        \* history: the frames written to the stream, in order
    got          \* what the successive from_stream calls on the stream returned

svars == <<clients, files, pc, command, response, upload, filename,
           approved, unanswered, last, steps, lock, before>>

cvars == <<msg, wire, decoded, cpc>>

\* the sending side of a transfer and the reader of a stream of frames
fvars == <<send, sent, got>>

tvars == <<stream, rpos, recv, fvars>>

vars == <<svars, cvars, tvars>>

Offers == Users \X Users \X FileNames

NoUpload == [file_name |-> None, file_size |-> 0, total_bytes_received |-> 0]

NoEvent == [kind |-> None]

\* the queue of a user, empty for a user the registry does not hold
queue(user) == IF user \in DOMAIN clients THEN clients[user].incoming_requests ELSE <<>>

RECURSIVE SumLen(_, _)
SumLen(clients_, S) ==
    IF S = {} THEN 0
    ELSE LET u == CHOOSE x \in S : TRUE
         IN Len(clients_[u].incoming_requests) + SumLen(clients_, S \ {u})

\* how many entries of a queue are the offer of `from` for `name`
Count(vec, from, name) ==
    Cardinality({i \in 1..Len(vec) : vec[i] = Request(from, name)})

NoRead == [kind |-> None]

NoReceive == [pc |-> "off"]

NoSend == [pc |-> "off"]

\* no session exists yet
InitSessions ==
    /\ clients = << >>
    /\ files = {}
    /\ pc = [u \in Users |-> "Offline"]
    /\ command = [u \in Users |-> NoCommand]
    /\ response = [u \in Users |-> NoResponse]
    /\ upload = [u \in Users |-> NoUpload]
    /\ filename = [u \in Users |-> None]
    /\ approved = [u \in Users |-> FALSE]
    /\ unanswered = [o \in Offers |-> 0]
    /\ last = NoEvent
    /\ steps = 0
    /\ lock = None
    /\ before = << >>

\* the codec is not exercised
InitCodecOff ==
    /\ msg = Simple("UsernameOk")
    /\ wire = <<>>
    /\ decoded = NoRead
    /\ cpc = "off"

\* send_file is not exercised and no reader walks the stream
InitSendOff ==
    /\ send = NoSend
    /\ sent = <<>>
    /\ got = <<>>

\* receive_file is not exercised
InitReceiveOff ==
    /\ stream = <<>>
    /\ rpos = 1
    /\ recv = NoReceive
    /\ InitSendOff

Init == InitSessions /\ InitCodecOff /\ InitReceiveOff

(***************************************************************************)
(* Login and disconnect of a session (the server front-end).  Every        *)
(* operation on the registry locks the mutex; one that does not suspend    *)
(* while it holds the mutex is a single step that needs the mutex free.    *)
(***************************************************************************)

lvars == <<lock, before>>

\* insert-if-absent of the session's handle, answered UsernameOk
Login(u) ==
    /\ pc[u] = "Offline"
    /\ steps < MaxSteps
    /\ lock = None
    /\ u \notin DOMAIN clients
    /\ clients' = [k \in (DOMAIN clients) \cup {u} |->
                      IF k = u THEN UserData(<<>>) ELSE clients[k]]
    /\ pc' = [pc EXCEPT ![u] = "Active"]
    /\ steps' = steps + 1
    /\ last' = NoEvent
    /\ UNCHANGED <<files, command, response, upload, filename, approved,
                   unanswered, lvars>>
    /\ UNCHANGED <<cvars, tvars>>

\* the client closes its stream while the session waits for a command
Disconnect(u) ==
    /\ pc[u] = "Active"
    /\ steps < MaxSteps
    /\ pc' = [pc EXCEPT ![u] = "Closed"]
    /\ steps' = steps + 1
    /\ last' = NoEvent
    /\ UNCHANGED <<clients, files, command, response, upload, filename,
                   approved, unanswered, lvars>>
    /\ UNCHANGED <<cvars, tvars>>

\* teardown of a closed session: registry remove-by-handle; the handle is
\* not used by a later connection
Teardown(u) ==
    /\ pc[u] = "Closed"
    /\ lock = None
    /\ clients' = without(clients, u)
    /\ pc' = [pc EXCEPT ![u] = "Gone"]
    /\ command' = [command EXCEPT ![u] = NoCommand]
    /\ response' = [response EXCEPT ![u] = NoResponse]
    /\ upload' = [upload EXCEPT ![u] = NoUpload]
    /\ filename' = [filename EXCEPT ![u] = None]
    /\ approved' = [approved EXCEPT ![u] = FALSE]
    /\ unanswered' = [o \in Offers |-> IF o[1] = u THEN 0 ELSE unanswered[o]]
    /\ last' = NoEvent
    /\ UNCHANGED <<files, steps, lvars>>
    /\ UNCHANGED <<cvars, tvars>>

(***************************************************************************)
(* Command::handle up to the response: parse, execute, write the response. *)
(***************************************************************************)

\* history: the glides answered GlideRequestSent and not yet answered
Answered(cmd, u, out) ==
    CASE cmd.type = "Glide" /\ out.response = GlideRequestSent ->
            [unanswered EXCEPT ![<<cmd.to, u, file_name(cmd.path)>>] = @ + 1]
      [] cmd.type = "No" /\ position(queue(u), cmd.from) # 0 ->
            [unanswered EXCEPT
                ![<<u, cmd.from, queue(u)[position(queue(u), cmd.from)].filename>>] =
                    IF @ > 0 THEN @ - 1 ELSE 0]
      [] OTHER -> unanswered

\* what Command::handle leaves when the response is written
Responded(u, cmd, response_, before_, disk_, removed_) ==
    /\ pc' = [pc EXCEPT ![u] = phase(response_)]
    /\ command' = [command EXCEPT ![u] =
                      IF phase(response_) = "Active" THEN NoCommand ELSE cmd]
    /\ response' = [response EXCEPT ![u] =
                      IF phase(response_) = "Active" THEN NoResponse ELSE response_]
    /\ last' = [kind |-> "handle", user |-> u, command |-> cmd,
                response |-> response_, before |-> before_, disk |-> disk_,
                removed |-> removed_]

\* a command runs up to its response, or, for a No that found a request, up
\* to the point where cmd_no awaits remove_file with the mutex locked;
\* InvalidCommand is the only command that does not lock the mutex
Handle(u, cmd) ==
    /\ pc[u] = "Active"
    /\ steps < MaxSteps
    /\ cmd.type # "InvalidCommand" => lock = None
    /\ \E out \in execute(clients, files, u, cmd) :
          /\ SumLen(out.clients, DOMAIN out.clients) <= MaxOffers
          /\ clients' = out.clients
          /\ files' = out.files
          /\ steps' = steps + 1
          /\ approved' = [approved EXCEPT ![u] =
                             IF cmd.type = "Ok" THEN any(queue(u), cmd.from) ELSE @]
          /\ unanswered' = Answered(cmd, u, out)
          /\ IF out.panic
             THEN /\ pc' = [pc EXCEPT ![u] = "Panicked"]
                  /\ command' = [command EXCEPT ![u] = cmd]
                  /\ response' = [response EXCEPT ![u] = NoResponse]
                  /\ last' = [kind |-> "panic", user |-> u, command |-> cmd,
                              before |-> clients]
                  /\ UNCHANGED <<filename, lvars>>
             ELSE IF out.awaits # None
             THEN /\ pc' = [pc EXCEPT ![u] = "NoRemoving"]
                  /\ command' = [command EXCEPT ![u] = cmd]
                  /\ response' = [response EXCEPT ![u] = NoResponse]
                  /\ filename' = [filename EXCEPT ![u] = out.awaits[3]]
                  /\ lock' = u
                  /\ before' = clients
                  /\ last' = NoEvent
             ELSE /\ Responded(u, cmd, out.response, clients, files, "none")
                  /\ UNCHANGED <<filename, lvars>>
    /\ UNCHANGED upload
    /\ UNCHANGED <<cvars, tvars>>

HandleList(u) == Handle(u, List)
HandleRequests(u) == Handle(u, Requests)
HandleGlide(u, path, to) == Handle(u, Glide(path, to))
HandleOk(u, from) == Handle(u, Ok(from))
HandleNo(u, from) == Handle(u, No(from))
HandleInvalid(u) == Handle(u, InvalidCommand)

\* cmd_no resumes from remove_file, whose error it ignores, drops the guard
\* of the mutex and returns NoSuccess, which handle writes to the client
NoRemove(u, refused) ==
    /\ pc[u] = "NoRemoving"
    /\ lock = u
    /\ refused => steps < MaxSteps
    /\ steps' = IF refused THEN steps + 1 ELSE steps
    /\ LET file_path == staged(command[u].from, u, filename[u])
           rm == remove_file(files, file_path, refused)
       IN /\ files' = rm.files
          /\ Responded(u, command[u], NoSuccess, before, files,
                       IF rm.ok THEN "ok" ELSE "failed")
    /\ filename' = [filename EXCEPT ![u] = None]
    /\ lock' = None
    /\ before' = << >>
    /\ UNCHANGED <<clients, upload, approved, unanswered>>
    /\ UNCHANGED <<cvars, tvars>>

(***************************************************************************)
(* Command::handle after GlideRequestSent: the upload phase.               *)
(***************************************************************************)

\* Command::handle returns; its locals are dropped
Return(u, to_pc) ==
    /\ pc' = [pc EXCEPT ![u] = to_pc]
    /\ command' = [command EXCEPT ![u] = NoCommand]
    /\ response' = [response EXCEPT ![u] = NoResponse]
    /\ upload' = [upload EXCEPT ![u] = NoUpload]
    /\ filename' = [filename EXCEPT ![u] = None]
    /\ approved' = [approved EXCEPT ![u] = FALSE]

\* history: a receive loop ended before file_size bytes had arrived, and
\* what handle returned
Uploaded(end_, result_) == [kind |-> "upload", end |-> end_, result |-> result_]

\* the read of the metadata returns 0 bytes: handle returns Ok(()) and the
\* session finds its stream closed
UploadClosed(u) ==
    /\ pc[u] = "AwaitingUpload"
    /\ Return(u, "Closed")
    /\ last' = NoEvent
    /\ UNCHANGED <<clients, files, unanswered, steps, lvars>>
    /\ UNCHANGED <<cvars, tvars>>

\* the metadata is not "<name>:<size>": handle returns Err
UploadBadMetadata(u) ==
    /\ pc[u] = "AwaitingUpload"
    /\ Return(u, "Closed")
    /\ last' = NoEvent
    /\ UNCHANGED <<clients, files, unanswered, steps, lvars>>
    /\ UNCHANGED <<cvars, tvars>>

\* the metadata names a file and a size: the staged file is created (and
\* truncated when it exists); a size of 0 skips the receive loop
UploadMetadata(u, name, size) ==
    /\ pc[u] = "AwaitingUpload"
    /\ files' = files \cup {staged(u, command[u].to, name)}
    /\ IF size = 0
       THEN /\ Return(u, "Active")
            /\ last' = NoEvent
       ELSE /\ pc' = [pc EXCEPT ![u] = "Receiving"]
            /\ upload' = [upload EXCEPT ![u] =
                  [file_name |-> name, file_size |-> size,
                   total_bytes_received |-> 0]]
            /\ last' = NoEvent
            /\ UNCHANGED <<command, response, filename, approved>>
    /\ UNCHANGED <<clients, unanswered, steps, lvars>>
    /\ UNCHANGED <<cvars, tvars>>

\* one read of n > 0 bytes in the receive loop, written to the file
UploadRead(u, n) ==
    /\ pc[u] = "Receiving"
    /\ upload[u].total_bytes_received < upload[u].file_size
    /\ IF upload[u].total_bytes_received + n >= upload[u].file_size
       THEN /\ Return(u, "Active")
            /\ last' = NoEvent
       ELSE /\ upload' = [upload EXCEPT ![u].total_bytes_received = @ + n]
            /\ last' = NoEvent
            /\ UNCHANGED <<pc, command, response, filename, approved>>
    /\ UNCHANGED <<clients, files, unanswered, steps, lvars>>
    /\ UNCHANGED <<cvars, tvars>>

\* a read of 0 bytes in the receive loop: break, handle returns Ok(()) and
\* the session finds its stream closed
UploadEnd(u) ==
    /\ pc[u] = "Receiving"
    /\ upload[u].total_bytes_received < upload[u].file_size
    /\ Return(u, "Closed")
    /\ last' = Uploaded("closed", "Ok")
    /\ UNCHANGED <<clients, files, unanswered, steps, lvars>>
    /\ UNCHANGED <<cvars, tvars>>

(***************************************************************************)
(* Command::handle after OkSuccess: the download phase.                    *)
(***************************************************************************)

\* the filename of the first request of the queue that comes from `from`,
\* looked up under the lock; None stands for the unreachable!() branches
lookup(clients_, username, cmd) ==
    IF cmd.type = "Ok" /\ username \in DOMAIN clients_
          /\ position(clients_[username].incoming_requests, cmd.from) # 0
    THEN clients_[username].incoming_requests[
            position(clients_[username].incoming_requests, cmd.from)].filename
    ELSE None

\* the block that locks the mutex, clones the filename and drops the guard
DownloadLookup(u) ==
    /\ pc[u] = "AwaitingDownload"
    /\ lock = None
    /\ IF lookup(clients, u, command[u]) = None
       THEN /\ pc' = [pc EXCEPT ![u] = "Panicked"]
            /\ last' = [kind |-> "panic", user |-> u, command |-> command[u],
                        before |-> clients]
            /\ UNCHANGED filename
       ELSE /\ pc' = [pc EXCEPT ![u] = "Sending"]
            /\ filename' = [filename EXCEPT ![u] = lookup(clients, u, command[u])]
            /\ last' = NoEvent
    /\ UNCHANGED <<clients, files, command, response, upload, approved,
                   unanswered, steps, lvars>>
    /\ UNCHANGED <<cvars, tvars>>

\* fs::metadata, then the metadata and the chunks written to the client; a
\* missing file makes handle return Err
DownloadSend(u) ==
    /\ pc[u] = "Sending"
    /\ IF staged(command[u].from, u, filename[u]) \in files
       THEN /\ pc' = [pc EXCEPT ![u] = "Removing"]
            /\ last' = [kind |-> "payload", user |-> u,
                        from |-> command[u].from, filename |-> filename[u]]
            /\ UNCHANGED <<command, response, upload, filename, approved>>
       ELSE /\ Return(u, "Closed")
            /\ last' = NoEvent
    /\ UNCHANGED <<clients, files, unanswered, steps, lvars>>
    /\ UNCHANGED <<cvars, tvars>>

\* remove_file of the staged file: handle returns Ok(()) when it succeeded
\* and its error when it failed
DownloadRemove(u, refused) ==
    /\ pc[u] = "Removing"
    /\ refused => steps < MaxSteps
    /\ steps' = IF refused THEN steps + 1 ELSE steps
    /\ LET rm == remove_file(files, staged(command[u].from, u, filename[u]), refused)
       IN /\ files' = rm.files
          /\ IF rm.ok
             THEN /\ Return(u, "Active")
                  /\ last' = [kind |-> "downloaded", user |-> u,
                              from |-> command[u].from, filename |-> filename[u],
                              before |-> clients]
                  /\ unanswered' = [unanswered EXCEPT
                                      ![<<u, command[u].from, filename[u]>>] =
                                          IF @ > 0 THEN @ - 1 ELSE 0]
             ELSE /\ Return(u, "Closed")
                  /\ last' = [kind |-> "remove_failed", user |-> u,
                              from |-> command[u].from, filename |-> filename[u],
                              result |-> "Err"]
                  /\ UNCHANGED unanswered
    /\ UNCHANGED <<clients, lvars>>
    /\ UNCHANGED <<cvars, tvars>>

Next ==
    \E u \in Users :
        \/ Login(u)
        \/ Disconnect(u)
        \/ Teardown(u)
        \/ HandleList(u)
        \/ HandleRequests(u)
        \/ HandleInvalid(u)
        \/ \E path \in Paths, to \in Users : HandleGlide(u, path, to)
        \/ \E from \in Users : HandleOk(u, from)
        \/ \E from \in Users : HandleNo(u, from)
        \/ \E refused \in BOOLEAN : NoRemove(u, refused)
        \/ UploadClosed(u)
        \/ UploadBadMetadata(u)
        \/ \E name \in FileNames, size \in 0..MaxFileSize : UploadMetadata(u, name, size)
        \/ \E n \in 1..MaxRead : UploadRead(u, n)
        \/ UploadEnd(u)
        \/ DownloadLookup(u)
        \/ DownloadSend(u)
        \/ \E refused \in BOOLEAN : DownloadRemove(u, refused)

Spec == Init /\ [][Next]_vars

(***************************************************************************)
(* The codec on its own: one message is encoded, then decoded.             *)
(***************************************************************************)
InitCodec ==
    /\ InitSessions
    /\ msg \in Messages
    /\ wire = <<>>
    /\ decoded = NoRead
    /\ cpc = "idle"
    /\ InitReceiveOff

\* the sender writes to_bytes(msg) to the stream
Encode ==
    /\ cpc = "idle"
    /\ wire' = to_bytes(msg)
    /\ cpc' = "encoded"
    /\ UNCHANGED <<msg, decoded, svars, tvars>>

\* tag bytes outside 0x00..0x0E and bytes after the tag 0x09 outside 1..5
BadTags == {15, 200}
BadSubTags == {0, 6, 200}

\* streams a peer may write that to_bytes never produces: an unknown tag,
\* alone and after 0x00 tags, an unknown command, and for comparison a
\* command cut short and two well-formed frames
RawStreams ==
    {<<t>> : t \in BadTags} \cup {<<0, t>> : t \in BadTags}
      \cup {<<9, c>> : c \in BadSubTags}
      \cup {<<9>>, <<2>>, <<9, 1>>}

\* the peer writes bytes of its own making to the stream
Inject(raw) ==
    /\ cpc = "idle"
    /\ wire' = raw
    /\ cpc' = "injected"
    /\ UNCHANGED <<msg, decoded, svars, tvars>>

\* the receiver calls from_stream on the stream
Decode ==
    /\ cpc \in {"encoded", "injected"}
    /\ decoded' = from_stream(wire, 1)
    /\ cpc' = IF cpc = "encoded" THEN "decoded" ELSE "decoded_raw"
    /\ UNCHANGED <<msg, wire, svars, tvars>>

NextCodec ==
    \/ Encode
    \/ \E raw \in RawStreams : Inject(raw)
    \/ Decode

SpecCodec == InitCodec /\ [][NextCodec]_vars

\* C2: decoding the bytes to_bytes gives for a message returns that message.
C2_RoundTrip ==
    cpc = "decoded" => decoded.kind = "ok" /\ decoded.value = msg

(***************************************************************************)
(* receive_file of transfers.rs on its own: the peer writes a sequence of  *)
(* frames and closes the stream, receive_file reads them with from_stream. *)
(***************************************************************************)

\* most frames the peer writes before it closes the stream
MaxFrames == 3

\* the names of the files of the transfers: "a" and "b"
TransferNames == {<<97>>, <<98>>}

\* n data bytes
data_bytes(n) == [i \in 1..n |-> 7]

\* the frames the peer may write
TransferFrames ==
    {Metadata(n, size) : n \in TransferNames, size \in 0..MaxFileSize}
      \cup {Chunk(n, data_bytes(len)) : n \in TransferNames, len \in 0..MaxRead}
      \cup {Simple("UsernameOk")}

\* the bytes of a sequence of frames
frames_to_bytes(frames) == Concat([i \in 1..Len(frames) |-> to_bytes(frames[i])])

\* the locals of receive_file past File::create: `written` is the number of
\* bytes written to the file, `result` what the function returned
Receiving(filename_, file_size_, total_, written_) ==
    [pc |-> "loop", filename |-> filename_, file_size |-> file_size_,
     total_bytes_received |-> total_, created |-> TRUE, written |-> written_,
     result |-> None]

Returned(r, result_) == [r EXCEPT !.pc = "done", !.result = result_]

InitReceive ==
    /\ InitSessions
    /\ InitCodecOff
    /\ stream \in {frames_to_bytes(frames) : frames \in SeqsUpTo(TransferFrames, MaxFrames)}
    /\ rpos = 1
    /\ recv = [pc |-> "start", filename |-> None, file_size |-> 0,
               total_bytes_received |-> 0, created |-> FALSE, written |-> 0,
               result |-> None]
    /\ InitSendOff

\* the first from_stream and its match: a Metadata creates the file, any
\* other frame is InvalidData, an error of from_stream is returned by `?`
ReceiveMetadata ==
    /\ recv.pc = "start"
    /\ LET t == from_stream(stream, rpos)
       IN IF t.kind = "ok"
          THEN /\ rpos' = t.next
               /\ recv' = IF t.value.type = "Metadata"
                          THEN Receiving(t.value.filename, t.value.size, 0, 0)
                          ELSE Returned(recv, "InvalidData")
          ELSE /\ rpos' = Len(stream) + 1
               /\ recv' = Returned(recv, IF t.kind = "err" THEN "UnexpectedEof" ELSE "panic")
    /\ UNCHANGED <<stream, svars, cvars, fvars>>

\* one turn of the loop `while total_bytes_received < file_size`
ReceiveChunk ==
    /\ recv.pc = "loop"
    /\ recv.total_bytes_received < recv.file_size
    /\ LET t == from_stream(stream, rpos)
       IN IF t.kind = "ok"
          THEN /\ rpos' = t.next
               /\ recv' = IF t.value.type = "Chunk" /\ t.value.filename = recv.filename
                          THEN [recv EXCEPT
                                   !.total_bytes_received = @ + Len(t.value.data),
                                   !.written = @ + Len(t.value.data)]
                          ELSE Returned(recv, "InvalidData")
          ELSE /\ rpos' = Len(stream) + 1
               /\ recv' = Returned(recv, IF t.kind = "err" THEN "UnexpectedEof" ELSE "panic")
    /\ UNCHANGED <<stream, svars, cvars, fvars>>

\* the loop ends: "File transfer completed", Ok(())
ReceiveCompleted ==
    /\ recv.pc = "loop"
    /\ recv.total_bytes_received >= recv.file_size
    /\ recv' = Returned(recv, "Ok")
    /\ UNCHANGED <<stream, rpos, svars, cvars, fvars>>

NextReceive == ReceiveMetadata \/ ReceiveChunk \/ ReceiveCompleted

SpecReceive == InitReceive /\ [][NextReceive]_vars

\* C17: when receive_file returns Ok(()), the data bytes it took from Chunk
\* frames and wrote to the file are exactly as many as the Metadata announced.
C17_ReceivedEqualsSize ==
    recv.result = "Ok" =>
        /\ recv.total_bytes_received = recv.file_size
        /\ recv.written = recv.file_size

\* the first byte of the stream that is not 0x00 is a tag outside
\* 0x01..0x0E, or it is 0x09 and the byte after it is not in 1..5
UnknownTag(bytes) ==
    \E j \in 1..Len(bytes) :
        /\ bytes[j] # 0
        /\ \A k \in 1..(j - 1) : bytes[k] = 0
        /\ \/ bytes[j] > 14
           \/ bytes[j] = 9 /\ j < Len(bytes) /\ bytes[j + 1] \notin 1..5

\* C16: from_stream returns an error to its caller when it reads a tag
\* outside 0x00..0x0E or, after the tag 0x09, a command outside 1..5.
C16_UnknownTagIsError ==
    (cpc = "decoded_raw" /\ UnknownTag(wire)) => decoded.kind = "err"

(***************************************************************************)
(* Properties of the command handler.                                      *)
(***************************************************************************)

\* the step just taken was Command::handle of a command of this type,
\* answered with a response
Handled(type) == last.kind = "handle" /\ last.command.type = type

DownloadPhase == {"AwaitingDownload", "Sending", "Removing"}

\* C1: a session is in the download phase, and writes the metadata and the
\* chunks of a staged file to its client, only while it handles an Ok(from)
\* of that client that it answered OkSuccess, the queue of the client having
\* held an offer from `from` when the Ok executed.
C1_PayloadOnlyAfterOwnOk ==
    /\ \A u \in Users :
          pc[u] \in DownloadPhase =>
              /\ command[u].type = "Ok"
              /\ response[u] = OkSuccess
              /\ approved[u]
    /\ last.kind = "payload" => pc[last.user] \in DownloadPhase

C1_Witness == last.kind = "payload"

\* C3: when the download phase that follows OkSuccess has completed, the
\* queue of the recipient is its queue without the first offer from `from`;
\* a Requests of a recipient with no unanswered offer returns an empty list.
C3_OfferRemovedAfterDownload ==
    /\ last.kind = "downloaded" =>
          LET q == last.before[last.user].incoming_requests
          IN queue(last.user) = remove(q, position(q, last.from))
    /\ (Handled("Requests")
            /\ \A o \in Offers : o[1] = last.user => unanswered[o] = 0)
          => last.response.requests = <<>>

\* C4: every offer a Requests response returns stands for a glide of its
\* sender to this recipient that was answered GlideRequestSent and that the
\* recipient has not answered with a successful ok or with no.
C4_RequestsOnlyUnanswered ==
    Handled("Requests") =>
        \A s \in Users, f \in FileNames :
            Count(last.response.requests, s, f) <= unanswered[<<last.user, s, f>>]

\* C5: a Glide to the issuing user itself or to a handle the registry does
\* not hold is answered UsernameInvalid, and the session stays Active
\* without entering the upload phase.
C5_RejectedGlideUsernameInvalid ==
    (Handled("Glide")
        /\ (last.command.to = last.user \/ last.command.to \notin DOMAIN last.before))
      => /\ last.response = UsernameInvalid
         /\ pc[last.user] = "Active"

\* C6: a Glide to the issuing user itself or to an absent handle leaves the
\* registry as it was, and no queue ever holds an offer of its own user.
C6_SelfGlideNoMutation ==
    /\ (Handled("Glide")
          /\ (last.command.to = last.user \/ last.command.to \notin DOMAIN last.before))
        => clients = last.before
    /\ \A r \in DOMAIN clients :
          \A i \in 1..Len(clients[r].incoming_requests) :
              clients[r].incoming_requests[i].from_username # r

C6_Witness ==
    /\ Handled("Glide")
    /\ last.command.to = last.user
    /\ \E r \in DOMAIN clients : clients[r].incoming_requests # <<>>

C8_OkSuccessIffOffer ==
    Handled("Ok") =>
        LET q == IF last.user \in DOMAIN last.before
                 THEN last.before[last.user].incoming_requests ELSE <<>>
            has == \E i \in 1..Len(q) : q[i].from_username = last.command.from
        IN /\ has => last.response = OkSuccess /\ pc[last.user] = "AwaitingDownload"
           /\ ~has => /\ last.response = OkFailed
                      /\ pc[last.user] = "Active"
                      /\ clients = last.before
                      /\ files = last.disk

C8_Witness ==
    /\ Handled("Ok")
    /\ last.response = OkFailed
    /\ queue(last.user) # <<>>

\* C9: No(from) is answered NoSuccess; it removes the first offer from `from`
\* of the issuer's queue and nothing else, and without such an offer it
\* leaves the registry as it was.
C9_NoRemovesFirstOffer ==
    Handled("No") =>
        LET q == last.before[last.user].incoming_requests
            firsts == {i \in 1..Len(q) :
                          /\ q[i].from_username = last.command.from
                          /\ \A j \in 1..(i - 1) : q[j].from_username # last.command.from}
        IN /\ last.response = NoSuccess
           /\ DOMAIN clients = DOMAIN last.before
           /\ \A r \in DOMAIN clients :
                 r # last.user => clients[r] = last.before[r]
           /\ firsts = {} => clients = last.before
           /\ \A i \in firsts :
                 queue(last.user) = SubSeq(q, 1, i - 1) \o SubSeq(q, i + 1, Len(q))

C9_Witness ==
    /\ Handled("No")
    /\ LET q == last.before[last.user].incoming_requests
       IN /\ Len(q) >= 2
          /\ q[1].from_username = last.command.from
          /\ q[2].from_username = last.command.from
          /\ Len(queue(last.user)) = 1

\* C10: List returns the handles of the registry other than the issuer, each
\* once and in some order, and leaves the registry as it was.
C10_ListOthers ==
    Handled("List") =>
        /\ last.response.type = "ConnectedUsers"
        /\ {last.response.users[i] : i \in 1..Len(last.response.users)}
              = (DOMAIN last.before) \ {last.user}
        /\ Len(last.response.users) = Cardinality((DOMAIN last.before) \ {last.user})
        /\ clients = last.before

C10_Witness ==
    /\ Handled("List")
    /\ Len(last.response.users) = 2

(***************************************************************************)
(* Properties of concurrent sessions.                                      *)
(***************************************************************************)

UploadPhase == {"AwaitingUpload", "Receiving"}

\* the staged file the upload phase of s writes once it has its metadata
writes(s) == staged(s, command[s].to, upload[s].file_name)

\* the staged file the download phase of r reads and removes
reads(r) == staged(command[r].from, r, filename[r])

\* C11: a Requests of r returns every offer of a glide to r that was
\* answered GlideRequestSent since r logged in and that r has not answered
\* with a completed ok or with no, whatever the other sessions did meanwhile.
C11_OfferVisibleToRequests ==
    Handled("Requests") =>
        \A s \in Users, f \in FileNames :
            Count(last.response.requests, s, f) >= unanswered[<<last.user, s, f>>]

C11_Witness ==
    /\ Handled("Requests")
    /\ \E s \in Users, f \in FileNames :
          /\ unanswered[<<last.user, s, f>>] > 0
          /\ pc[s] = "Receiving"
          /\ command[s].to = last.user

\* C12: a Glide to a present recipient issued while the handler of another
\* session's Glide to that recipient is still running is answered
\* GlideRequestSent and adds its offer to the queue and nothing else; while
\* two sessions are in the upload phase for one recipient that has answered
\* neither offer, the queue holds the offers of both.
C12_ConcurrentGlidesBothQueued ==
    /\ (last.kind \in {"handle", "panic"}
          /\ last.command.type = "Glide"
          /\ last.command.to \in DOMAIN last.before
          /\ last.command.to # last.user
          /\ file_name(last.command.path) # None
          /\ \E s \in Users \ {last.user} :
                pc[s] \in UploadPhase /\ command[s].to = last.command.to)
        => /\ last.kind = "handle"
           /\ last.response = GlideRequestSent
           /\ \A s \in Users, f \in FileNames :
                 Count(queue(last.command.to), s, f) =
                     Count(last.before[last.command.to].incoming_requests, s, f)
                       + (IF s = last.user /\ f = file_name(last.command.path)
                          THEN 1 ELSE 0)
    /\ \A s1, s2 \in Users :
          (s1 # s2
            /\ pc[s1] \in UploadPhase /\ pc[s2] \in UploadPhase
            /\ command[s1].to = command[s2].to
            /\ unanswered[<<command[s1].to, s1, file_name(command[s1].path)>>] > 0
            /\ unanswered[<<command[s2].to, s2, file_name(command[s2].path)>>] > 0)
          => /\ Count(queue(command[s1].to), s1, file_name(command[s1].path)) >= 1
             /\ Count(queue(command[s2].to), s2, file_name(command[s2].path)) >= 1

C12_Witness ==
    /\ Handled("Glide")
    /\ last.response = GlideRequestSent
    /\ \E s \in Users \ {last.user} :
          /\ pc[s] \in UploadPhase
          /\ command[s].to = last.command.to
          /\ Len(queue(last.command.to)) = 2
          /\ queue(last.command.to)[1].from_username = s
          /\ queue(last.command.to)[2].from_username = last.user

\* the states in which a session is suspended in a read or a write of its
\* stream or in an operation of the filesystem
Suspended_in_io == {"AwaitingUpload", "Receiving", "Sending", "Removing", "NoRemoving"}

\* C13: no session holds the mutex of the registry while it is suspended in
\* a network read, a network write or a filesystem operation.
C13_NoIoUnderLock ==
    \A u \in Users : pc[u] \in Suspended_in_io => lock # u

\* C14: a staged file is not read or removed by its recipient while its
\* sender's upload still writes it, and no two uploads write one path.
C14_StagedPathExclusive ==
    LET written == {writes(s) : s \in {x \in Users : pc[x] = "Receiving"}}
    IN /\ last.kind = "payload" =>
              staged(last.from, last.user, last.filename) \notin written
       /\ last.kind = "downloaded" =>
              staged(last.from, last.user, last.filename) \notin written
       /\ (Handled("No") /\ last.removed = "ok") =>
              LET q == last.before[last.user].incoming_requests
              IN staged(last.command.from, last.user,
                        q[position(q, last.command.from)].filename) \notin written
       /\ \A s1, s2 \in Users :
              (s1 # s2 /\ pc[s1] = "Receiving" /\ pc[s2] = "Receiving")
                => writes(s1) # writes(s2)

\* the upload phase of s is under way for the offer {s, f} to r: it awaits
\* the metadata of the glide of f, or it writes the staged file of f
Uploading(s, r, f) ==
    /\ command[s].type = "Glide"
    /\ command[s].to = r
    /\ \/ pc[s] = "AwaitingUpload" /\ file_name(command[s].path) = f
       \/ pc[s] = "Receiving" /\ upload[s].file_name = f

\* C15: for every offer {s, f} in the queue of r, the staged file s/r/f
\* exists on disk or the upload phase of s for it is under way.
C15_OfferHasStagedFile ==
    \A r \in DOMAIN clients :
        \A i \in 1..Len(clients[r].incoming_requests) :
            LET o == clients[r].incoming_requests[i]
            IN \/ staged(o.from_username, r, o.filename) \in files
               \/ Uploading(o.from_username, r, o.filename)

(***************************************************************************)
(* Properties of failed transfers.                                         *)
(***************************************************************************)

\* C18: when the uploader's stream closes after its metadata and before
\* file_size bytes have arrived, the upload phase ends with a failure: what
\* handle returns is an error, not Ok(()).
C18_ClosedUploadFails ==
    (last.kind = "upload" /\ last.end = "closed") => last.result = "Err"

\* C19: a step that ends the receive loop of an upload with the session
\* closed (the stream closed before file_size bytes had arrived) removes the
\* staged file the upload was writing and leaves every queue as it was.
C19_FailedUploadRemovesFile ==
    [][\A u \in Users :
          (pc[u] = "Receiving" /\ pc'[u] = "Closed")
            => /\ staged(u, command[u].to, upload[u].file_name) \notin files'
               /\ clients' = clients]_vars

\* C20: a remove_file that fails, in cmd_no and after the send of the
\* download phase, changes nothing for the client: No is answered NoSuccess,
\* handle returns Ok(()) and the session stays Active.
C20_DeleteFailureSwallowed ==
    /\ (Handled("No") /\ last.removed = "failed")
          => last.response = NoSuccess /\ pc[last.user] = "Active"
    /\ last.kind = "remove_failed"
          => last.result = "Ok" /\ pc[last.user] = "Active"


(***************************************************************************)
(* send_file of transfers.rs on its own: a file of the sender's disk is    *)
(* written to the stream as one Metadata frame followed by Chunk frames.   *)
(***************************************************************************)

\* data.rs: the size of the read buffer
CHUNK_SIZE == 1024

\* most reads of the file that return data
MaxReads == 3

\* the lengths of the files sent
FileLens == {0, 1, 2, CHUNK_SIZE, CHUNK_SIZE + 1}

\* how many bytes one file.read may return: at least 1, at most the buffer
ReadLens == {1, 2, CHUNK_SIZE}

\* byte i of the file, so that the order of the data shows
file_byte(i) == i % 251

\* the n bytes of the file after the first `offset`
file_bytes(offset, n) == [i \in 1..n |-> file_byte(offset + i)]

\* send_file returned
SendReturned(s, result_) == [s EXCEPT !.pc = "done", !.result = result_]

\* `exists`: there is a file at the path; `len`: its length; `offset`: how
\* much of it the reads have returned; `read_failed`: a read returned Err
InitSend ==
    /\ InitSessions
    /\ InitCodecOff
    /\ stream = <<>>
    /\ rpos = 1
    /\ recv = NoReceive
    /\ \E name \in TransferNames, len \in FileLens, exists \in BOOLEAN :
          /\ exists \/ len = 0
          /\ send = [pc |-> "start", path |-> name, exists |-> exists, len |-> len,
                     file_name |-> None, file_size |-> 0, offset |-> 0, reads |-> 0,
                     read_failed |-> FALSE, result |-> None]
    /\ sent = <<>>
    /\ got = <<>>

\* fs::metadata(path)?, file_name, then the Metadata frame is written
SendMetadata ==
    /\ send.pc = "start"
    /\ IF ~send.exists
       THEN /\ send' = SendReturned(send, "Err")
            /\ UNCHANGED <<stream, sent>>
       ELSE LET frame == Metadata(send.path, send.len)
            IN /\ send' = [send EXCEPT !.pc = "loop", !.file_name = send.path,
                                       !.file_size = send.len]
               /\ stream' = stream \o to_bytes(frame)
               /\ sent' = Append(sent, frame)
    /\ UNCHANGED <<rpos, recv, got, svars, cvars>>

\* a write_all to the stream, or File::open, fails: returned by `?`
SendFailed ==
    /\ send.pc \in {"start", "loop"}
    /\ send.exists
    /\ send' = SendReturned(send, "Err")
    /\ UNCHANGED <<stream, sent, rpos, recv, got, svars, cvars>>

\* one turn of the loop: file.read returns Ok(n), n > 0, and the bytes are
\* written as a Chunk frame
SendChunk(n) ==
    /\ send.pc = "loop"
    /\ send.reads < MaxReads
    /\ n <= CHUNK_SIZE
    /\ n <= send.len - send.offset
    /\ LET frame == Chunk(send.file_name, file_bytes(send.offset, n))
       IN /\ stream' = stream \o to_bytes(frame)
          /\ sent' = Append(sent, frame)
    /\ send' = [send EXCEPT !.offset = @ + n, !.reads = @ + 1]
    /\ UNCHANGED <<rpos, recv, got, svars, cvars>>

\* file.read returns Ok(0): break, "File sent successfully", Ok(())
SendEof ==
    /\ send.pc = "loop"
    /\ send.offset = send.len
    /\ send' = SendReturned(send, "Ok")
    /\ UNCHANGED <<stream, sent, rpos, recv, got, svars, cvars>>

\* file.read returns Err: `while let Ok(bytes_read)` does not match, the loop
\* ends, "File sent successfully", Ok(())
SendReadError ==
    /\ send.pc = "loop"
    /\ send' = [SendReturned(send, "Ok") EXCEPT !.read_failed = TRUE]
    /\ UNCHANGED <<stream, sent, rpos, recv, got, svars, cvars>>

NextSend ==
    \/ SendMetadata
    \/ SendFailed
    \/ \E n \in ReadLens : SendChunk(n)
    \/ SendEof
    \/ SendReadError

SpecSend == InitSend /\ [][NextSend]_vars

\* the data of the Chunk frames after the first frame, concatenated
payloads(frames) == Concat([i \in 1..(Len(frames) - 1) |-> frames[i + 1].data])

\* C21: send_file writes one Metadata(filename, size), then Chunk frames with
\* that filename and 1 to CHUNK_SIZE data bytes each, the data in file order;
\* when it returns Ok(()) the data bytes sent are as many as the Metadata
\* announced (a failed read of the file does not end in Ok(())).
C21_SentEqualsAnnounced ==
    /\ sent # <<>> =>
          /\ sent[1] = Metadata(send.file_name, send.file_size)
          /\ \A i \in 2..Len(sent) :
                /\ sent[i].type = "Chunk"
                /\ sent[i].filename = sent[1].filename
                /\ Len(sent[i].data) \in 1..CHUNK_SIZE
          /\ payloads(sent) = file_bytes(0, Len(payloads(sent)))
          /\ stream = frames_to_bytes(sent)
    /\ (send.pc = "done" /\ send.result = "Ok") =>
          /\ sent # <<>>
          /\ Len(payloads(sent)) = sent[1].size
          /\ ~send.read_failed


(***************************************************************************)
(* A stream of frames: the sender writes messages back to back with 0x0    *)
(* bytes between them and closes, the reader calls from_stream again and   *)
(* again, each call from the place the call before it stopped at.          *)
(***************************************************************************)

\* most 0x0 bytes before a frame
MaxPad == 2

\* the messages of the streams: every shape of frame, with strings "a" and
\* U+00E9, a data byte 0x0, empty and one-entry lists
StreamFrames ==
    {Simple("UsernameOk"), Username(<<97>>), Username(<<233>>),
     Metadata(<<97>>, 0), Chunk(<<97>>, <<0>>), Chunk(<<97>>, <<>>),
     Users_(<<>>), Users_(<<<<97>>>>),
     Requests_(<<>>), Requests_(<<WireRequest(<<97>>, <<97>>)>>),
     Command(List), Command(Glide(<<97>>, <<97>>)), Command(Ok(<<97>>)),
     Command(No(<<97>>))}

\* n bytes 0x0
zeros(n) == [i \in 1..n |-> 0]

\* the bytes of the frames, frame i after pads[i] bytes 0x0
padded(frames, pads) ==
    Concat([i \in 1..Len(frames) |-> zeros(pads[i]) \o to_bytes(frames[i])])

InitStream ==
    /\ InitSessions
    /\ InitCodecOff
    /\ sent \in SeqsUpTo(StreamFrames, MaxFrames)
    /\ stream \in {padded(sent, pads) : pads \in [1..Len(sent) -> {0, MaxPad}]}
    /\ rpos = 1
    /\ recv = NoReceive
    /\ send = NoSend
    /\ got = <<>>

\* one call of from_stream on the stream; `from` is where it started.  A
\* call that returned an error or panicked is the last one.
ReadFrame ==
    /\ send = NoSend
    /\ Len(got) < Len(sent)
    /\ got # <<>> => got[Len(got)].read.kind = "ok"
    /\ LET t == from_stream(stream, rpos)
       IN /\ got' = Append(got, [from |-> rpos, read |-> t])
          /\ rpos' = IF t.kind = "ok" THEN t.next ELSE Len(stream) + 1
    /\ UNCHANGED <<stream, sent, send, recv, svars, cvars>>

NextStream == ReadFrame

SpecStream == InitStream /\ [][NextStream]_vars

\* C22: on a stream of messages encoded back to back, with 0x0 bytes between
\* the frames, the k-th call of from_stream returns the k-th message, and the
\* bytes it consumed are 0x0 bytes followed by exactly the bytes of the k-th
\* frame.
C22_FramesInWireOrder ==
    (send = NoSend /\ rpos >= 1) =>
        \A k \in 1..Len(got) :
            /\ got[k].read.kind = "ok"
            /\ got[k].read.value = sent[k]
            /\ \E n \in 0..MaxPad :
                  SubSeq(stream, got[k].from, got[k].read.next - 1)
                      = zeros(n) \o to_bytes(sent[k])


\* C23: to_bytes of a ConnectedUsers of C handles is the byte 0x07, the two
\* bytes of C in big-endian order and each handle followed by one 0x00, and
\* nothing else; to_bytes of an IncomingRequests of C entries is 0x08, the
\* two big-endian bytes of C and, per entry, the sender, 0x00, the filename,
\* 0x00, and nothing else.
C23_ListFrameLayout ==
    cpc = "encoded" =>
        /\ msg.type = "ConnectedUsers" =>
              wire = <<7>> \o be16(Len(msg.users))
                       \o Concat([i \in 1..Len(msg.users) |-> utf8(msg.users[i]) \o <<0>>])
        /\ msg.type = "IncomingRequests" =>
              wire = <<8>> \o be16(Len(msg.requests))
                       \o Concat([i \in 1..Len(msg.requests) |->
                                    utf8(msg.requests[i].sender) \o <<0>>
                                      \o utf8(msg.requests[i].filename) \o <<0>>])


(***************************************************************************)
(* The queue between cmd_ok and the lookup, and a glide to a user that     *)
(* disconnects.                                                            *)
(***************************************************************************)

\* the registry before the step just taken, for the steps that record it
Recorded == last.kind \in {"handle", "downloaded", "panic"}

\* C24: a command of one session leaves every entry of the queues of the
\* other users in place (it only appends to them); so a session that
\* answered OkSuccess to Ok(from) still finds an offer from `from` in its
\* queue when it locks the registry to look up the filename, whatever the
\* other sessions did in between, and the unreachable!() branches of the
\* lookup are not reached.
C24_OfferStaysUntilLookup ==
    /\ Recorded =>
          \A r \in (DOMAIN last.before) \ {last.user} :
              /\ r \in DOMAIN clients
              /\ Len(queue(r)) >= Len(last.before[r].incoming_requests)
              /\ SubSeq(queue(r), 1, Len(last.before[r].incoming_requests))
                    = last.before[r].incoming_requests
    /\ \A u \in Users :
          pc[u] = "AwaitingDownload" =>
              /\ u \in DOMAIN clients
              /\ any(queue(u), command[u].from)
              /\ lookup(clients, u, command[u]) # None
    /\ last.kind = "panic" => last.command.type # "Ok"

\* another session appended to the queue of a session that stands between
\* its OkSuccess and the lookup
C24_Witness ==
    /\ Handled("Glide")
    /\ last.response = GlideRequestSent
    /\ pc[last.command.to] = "AwaitingDownload"
    /\ Len(queue(last.command.to)) > 1

\* C25: a Glide to a user whose session is torn down either runs before the
\* teardown, appends to the record the registry still holds and answers
\* GlideRequestSent, or runs after it, finds the user absent, leaves the
\* registry alone and answers with the rejection (UnknownCommand); it never
\* appends to a record that is gone and never panics on the missing entry.
C25_GlideAtomicWithTeardown ==
    /\ Handled("Glide") =>
          /\ last.response \in {GlideRequestSent, UnknownCommand}
          /\ last.command.to \notin DOMAIN last.before =>
                /\ last.response = UnknownCommand
                /\ clients = last.before
          /\ last.response = GlideRequestSent =>
                /\ last.command.to \in DOMAIN last.before
                /\ DOMAIN clients = DOMAIN last.before
                /\ queue(last.command.to) =
                      push(last.before[last.command.to].incoming_requests,
                           Request(last.user, file_name(last.command.path)))
    /\ (last.kind = "panic" /\ last.command.type = "Glide") =>
          /\ last.command.to \in DOMAIN last.before
          /\ file_name(last.command.path) = None

\* a Glide to a user whose record the teardown has removed was rejected
C25_Witness ==
    /\ Handled("Glide")
    /\ pc[last.command.to] = "Gone"
    /\ last.command.to # last.user
    /\ last.response = UnknownCommand

====
